---- MODULE Spec2Model ----
(***************************************************************************)
(* Model of the IoTaWatt looking-glass module: the background worker       *)
(* Module.run (poll, aggregate, render), Module.request and Module.Close.  *)
(*                                                                         *)
(* Two versions of the module are in the repository:                       *)
(*   variant "A"  src/unnamed/part_000  waits on the ticker first, sums    *)
(*                the last row in native unit, keeps the rows whose        *)
(*                timestamp is divisible by 20, continues after a failure; *)
(*   variant "B"  src/iotawatt.go       fetches first, converts every row  *)
(*                to kilo-units, returns from run after a failure.         *)
(*                                                                         *)
(* float64 values are modelled in fixed point: the integer number of       *)
(* thousandths (Unit) of the value, so that the device's integer readings  *)
(* and their division by 1000 are exact.  Rounding of float64 arithmetic   *)
(* is not modelled.                                                        *)
(***************************************************************************)
EXTENDS Integers, Sequences, FiniteSets, TLC

VARIABLES
    variant,      \* which version of the source runs: "A" or "B"
    inputs,       \* m.cfg.Inputs, the configured input channels
    pc,           \* position of the worker goroutine in run()
    done,         \* m.done is closed
    tickerC,      \* number of firings buffered in ticker.C (capacity 1)
    inFlight,     \* calls of m.request that have not returned
    fetchResult,  \* how the request of the current tick ended
    raw,          \* rows decoded by the current tick's request
    current,      \* the current total computed by the current tick
    series,       \* the per-input series computed by the current tick
    log,          \* m.log.Error entries of the current tick
    evals,        \* m.ui.Eval calls of the current tick, with their outcome
    panic,        \* the run-time panic that ended the process, or "none"
    closedInFlight, \* the first Close came while a request was in flight
    newErr,       \* the error New returned: "pending" before New, "none" on success
    qryVals,      \* m.qryVals, the query parameters built in New
    sent,         \* the RawQuery of the request in flight
    openBodies,   \* response bodies received and not yet closed
    shown,        \* variant A: the unit in the text of .current, "" before any
    classes       \* variant A: the unit classes of the .current element

\* Set by New and read-only afterwards.
config == <<variant, inputs, qryVals, newErr>>
\* The display element written by renderCurrent.
display == <<shown, classes>>
\* The HTTP exchange of Module.request.
http == <<sent, openBodies>>

vars == <<variant, inputs, pc, done, tickerC, inFlight, fetchResult, raw,
          current, series, log, evals, panic, closedInFlight, newErr, qryVals,
          sent, openBodies, shown, classes>>

----------------------------------------------------------------------------
(* Bounds of the model *)

MaxInputs == 2
MaxRows == 2

\* Unix timestamps (seconds) and channel readings (watts) the device returns.
Timestamps == {100, 110, 120}
Readings == {500, 700}
InputNames == <<"in1", "in2", "in3", "in4">>

----------------------------------------------------------------------------
(* float64 in fixed point *)

\* One unit of a float64 value: a value v is held as v * Unit.
Unit == 1000

\* A JSON integer literal decoded into a float64.
Float(n) == n * Unit

\* Go's int(f): truncation toward zero.
ToInt(f) == IF f >= 0 THEN f \div Unit ELSE -((-f) \div Unit)

\* Go's a % b on ints: the remainder has the sign of the dividend.
GoRem(a, b) == IF a >= 0 THEN a % b ELSE -((-a) % b)

\* f / 1000 on float64, exact on the integer readings of the model.
DivKiloAsIs(f) == f
DivKilo(f) == IF f >= 0 THEN f \div 1000 ELSE -((-f) \div 1000)

\* The downsample cadence of variant A: int(row[0])%20.
Cadence == 20

----------------------------------------------------------------------------
(* Payloads the device can answer with *)

\* Rows of n values: a timestamp followed by n-1 readings.
RECURSIVE RowsOfLen(_)
RowsOfLen(n) ==
    IF n = 0 THEN {<<>>}
    ELSE IF n = 1 THEN {<<Float(t)>> : t \in Timestamps}
    ELSE {Append(r, Float(v)) : r \in RowsOfLen(n - 1), v \in Readings}

\* For l configured inputs: the well-formed rows (1 + l values) and the rows
\* that are one value short.
RowsFor(l) == RowsOfLen(l + 1) \cup RowsOfLen(l)

\* The device returns its rows in time order: row r may follow the rows p.
InTimeOrder(p, r) ==
    \/ p = <<>>
    \/ p[Len(p)] = <<>>
    \/ r = <<>>
    \/ p[Len(p)][1] <= r[1]

\* Row lists of at most MaxRows rows.
RECURSIVE ListsOf(_, _)
ListsOf(rows, n) ==
    IF n = 0 THEN {<<>>}
    ELSE ListsOf(rows, n - 1)
         \cup UNION {{Append(p, r) : r \in {x \in rows : InTimeOrder(p, x)}} :
                        p \in {q \in ListsOf(rows, n - 1) : Len(q) = n - 1}}

\* The decoded bodies for each number of configured inputs.
PayloadsByInputs == [n \in 0..MaxInputs |-> ListsOf(RowsFor(n), MaxRows)]
Payloads(l) == PayloadsByInputs[l]

----------------------------------------------------------------------------
(* Aggregation, src/iotawatt.go:111-122 (variant B) *)

\* make([]series, l): l series with nil Data.
EmptySeriesOneMore(l) == [i \in 1..(l + 1) |-> <<>>]
EmptySeries(l) == [i \in 1..l |-> <<>>]

Panicked == [panic |-> TRUE, current |-> 0, series |-> <<>>]

\* The inner loop over the channels of one row: for i := 1; i <= l; i++.
\* row[i] of the source is row[i + 1] here (sequences start at 1).
RECURSIVE RowB(_, _, _, _, _)
RowB(row, l, i, ser, curr) ==
    IF i > l THEN [panic |-> FALSE, current |-> curr, series |-> ser]
    ELSE IF i + 1 > Len(row) THEN Panicked
    ELSE LET kw == DivKilo(row[i + 1])
         IN  RowB(row, l, i + 1,
                  [ser EXCEPT ![i] = Append(@, <<row[1], kw>>)], curr + kw)

\* The loop over the rows: for _, row := range raw; current = curr.
RECURSIVE RowsB(_, _, _, _, _)
RowsB(rows, l, k, ser, cur) ==
    IF k > Len(rows) THEN [panic |-> FALSE, current |-> cur, series |-> ser]
    ELSE LET r == RowB(rows[k], l, 1, ser, 0)
         IN  IF r.panic THEN Panicked
             ELSE RowsB(rows, l, k + 1, r.series, r.current)

AggregateB(rows, l) == RowsB(rows, l, 1, EmptySeries(l), 0)

----------------------------------------------------------------------------
(* Aggregation, src/unnamed/part_000:115-130 (variant A) *)

\* for i := 1; i <= l; i++ { current += raw[rl-1][i] }
RECURSIVE SumLast(_, _, _, _)
SumLast(rows, l, i, cur) ==
    IF i > l THEN [panic |-> FALSE, current |-> cur, series |-> <<>>]
    ELSE IF Len(rows) = 0 THEN Panicked
    ELSE IF i + 1 > Len(rows[Len(rows)]) THEN Panicked
    ELSE SumLast(rows, l, i + 1, cur + rows[Len(rows)][i + 1])

\* if int(row[0])%20 != 0 { continue }: TRUE when the row is kept.
OnCadenceAlways(row) == TRUE
OnCadence(row) == GoRem(ToInt(row[1]), Cadence) = 0

\* for j := 1; j <= l; j++ { series[j-1].Data = append(...) }
RECURSIVE RowA(_, _, _, _)
RowA(row, l, j, ser) ==
    IF j > l THEN [panic |-> FALSE, current |-> 0, series |-> ser]
    ELSE IF j + 1 > Len(row) THEN Panicked
    ELSE RowA(row, l, j + 1, [ser EXCEPT ![j] = Append(@, <<row[1], row[j + 1]>>)])

\* for _, row := range raw
RECURSIVE RowsA(_, _, _, _)
RowsA(rows, l, k, ser) ==
    IF k > Len(rows) THEN [panic |-> FALSE, current |-> 0, series |-> ser]
    ELSE IF Len(rows[k]) = 0 THEN Panicked
    ELSE IF ~OnCadence(rows[k]) THEN RowsA(rows, l, k + 1, ser)
    ELSE LET r == RowA(rows[k], l, 1, ser)
         IN  IF r.panic THEN Panicked ELSE RowsA(rows, l, k + 1, r.series)

AggregateA(rows, l) ==
    LET s == SumLast(rows, l, 1, 0)
    IN  IF s.panic THEN Panicked
        ELSE LET r == RowsA(rows, l, 1, EmptySeries(l))
             IN  IF r.panic THEN Panicked
                 ELSE [panic |-> FALSE, current |-> s.current, series |-> r.series]

\* json.Marshal of []series fails only on a value that is not finite
\* (NaN or an infinity); every fixed-point value is a finite number.
IsFinite(f) == f \in Int
MarshalOk(ser) ==
    \A i \in DOMAIN ser : \A k \in DOMAIN ser[i] :
        IsFinite(ser[i][k][1]) /\ IsFinite(ser[i][k][2])

----------------------------------------------------------------------------
(* The worker, Module.run, and Module.Close *)

l == Len(inputs)

Alive == panic = "none"

Init ==
    /\ variant \in {"A", "B"}
    /\ inputs \in {SubSeq(InputNames, 1, n) : n \in 0..MaxInputs}
    /\ pc = "new"
    /\ done = FALSE
    /\ tickerC = 0
    /\ inFlight = 0
    /\ fetchResult = "none"
    /\ raw = <<>>
    /\ current = 0
    /\ series = <<>>
    /\ log = <<>>
    /\ evals = <<>>
    /\ panic = "none"
    /\ closedInFlight = FALSE
    /\ newErr = "pending"
    /\ qryVals = <<>>
    /\ sent = <<>>
    /\ openBodies = 0
    /\ shown = ""
    /\ classes = {}

\* inputs := append([]string{"time.utc.unix"}, cfg.Inputs...): the select list.
SelectListInputsOnly(inp) == inp
SelectList(inp) == <<"time.utc.unix">> \o inp

\* The url.Values built in New; the two versions differ in resolution and
\* missing.
QueryValues ==
    [k \in {"format", "resolution", "missing", "begin", "end", "group", "select"} |->
        CASE k = "format" -> "json"
          [] k = "resolution" -> (IF variant = "A" THEN "low" ELSE "high")
          [] k = "missing" -> (IF variant = "A" THEN "skip" ELSE "null")
          [] k = "begin" -> "s-1h"
          [] k = "end" -> "s"
          [] k = "group" -> "auto"
          [] k = "select" -> SelectList(inputs)]

\* url.Values.Encode: the key=value pairs sorted by key.
SortedKeys == <<"begin", "end", "format", "group", "missing", "resolution", "select">>
Encode(q) ==
    IF q = <<>> THEN <<>>
    ELSE [i \in 1..Len(SortedKeys) |-> <<SortedKeys[i], q[SortedKeys[i]]>>]

\* go m.run() is reached only when no step of New failed.
LaunchedBeforeAssets(e) == e \in {"none", "css", "html", "eval"}
Launched(e) == e = "none"

\* New: the query values are built, then the URL is parsed, the CSS and the
\* HTML are loaded and the module scripts are invoked; the first failure
\* returns (nil, err).  Otherwise the worker is launched and the module is
\* returned as the io.Closer.
New ==
    /\ pc = "new"
    /\ \E e \in {"none", "url", "css", "html", "eval"} :
         /\ newErr' = e
         /\ pc' = IF Launched(e) THEN "idle" ELSE "failed"
         /\ qryVals' = IF Launched(e) THEN QueryValues ELSE <<>>
    /\ UNCHANGED <<variant, inputs, display, http, done, tickerC, inFlight,
                   fetchResult, raw, current, series, log, evals, panic,
                   closedInFlight>>

\* var raw [][]float64; m.request(c, &raw): a new tick begins and c.Do is
\* issued with the encoded query values.  The variables of the loop body are
\* fresh in every iteration.
BeginRequest ==
    /\ sent' = Encode(qryVals)
    /\ UNCHANGED openBodies
    /\ pc' = "request"
    /\ inFlight' = inFlight + 1
    /\ fetchResult' = "pending"
    /\ raw' = <<>>
    /\ current' = 0
    /\ series' = <<>>
    /\ log' = <<>>
    /\ evals' = <<>>

\* Where run goes after a stage of the tick failed: variant A continues with
\* the next iteration (the select), variant B returns.
AfterFailureFallThrough == "aggregate"
AfterFailure == IF variant = "A" THEN "select" ELSE "returned"

\* go m.run(): the ticker is created; variant A blocks in the select,
\* variant B issues its first request at once.
Start ==
    /\ Alive
    /\ pc = "idle"
    /\ IF variant = "A"
       THEN /\ pc' = "select"
            /\ UNCHANGED <<http, inFlight, fetchResult, raw, current, series,
                           log, evals>>
       ELSE BeginRequest
    /\ UNCHANGED <<config, display, done, tickerC, panic, closedInFlight>>

\* The ticker is running from time.NewTicker until the deferred ticker.Stop.
TickerRunning == pc \notin {"new", "failed", "idle", "returned"}

\* The ticker fires: the firing is buffered in ticker.C, or dropped when one
\* is buffered already.
TimerFire ==
    /\ Alive
    /\ TickerRunning
    /\ tickerC = 0
    /\ tickerC' = 1
    /\ UNCHANGED <<config, display, http, pc, done, inFlight, fetchResult, raw,
                   current, series, log, evals, panic, closedInFlight>>

\* The worker is blocked in the select of run, and nowhere else.
AtSelectOrRequest == pc \in {"select", "request"}
AtSelect == pc = "select"

\* select: case <-m.done: return.  Enabled whenever m.done is closed; when a
\* firing is buffered too, Go chooses either ready case.
SelectDone ==
    /\ Alive
    /\ AtSelect
    /\ done
    /\ pc' = "returned"
    /\ UNCHANGED <<config, display, http, done, tickerC, inFlight, fetchResult, raw,
                   current, series, log, evals, panic, closedInFlight>>

\* The select takes the ticker case when a firing is buffered.
TickerReady == tickerC = 1

\* select: case <-ticker.C: the next request is issued.
SelectTick ==
    /\ Alive
    /\ AtSelect
    /\ TickerReady
    /\ tickerC' = 0
    /\ BeginRequest
    /\ UNCHANGED <<config, display, done, panic, closedInFlight>>

\* resp, err := c.Do(req) returns a response: its body is open from here on.
DoResponse ==
    /\ Alive
    /\ pc = "request"
    /\ pc' = "response"
    /\ openBodies' = openBodies + 1
    /\ UNCHANGED <<config, display, sent, done, tickerC, inFlight, fetchResult,
                   raw, current, series, log, evals, panic, closedInFlight>>

\* defer func() { _ = resp.Body.Close() }(): runs on every return that
\* follows a response.
DeferredCloseSkipped(open) == open
DeferredClose(open) == open - 1

\* m.request returns an error: c.Do failed (no response, no body), the status
\* is not 200, or the body does not decode.  run logs the error once.
RequestFail ==
    /\ Alive
    /\ \E e \in {"transport", "status", "decode"} :
         /\ fetchResult' = e
         /\ IF e = "transport"
            THEN pc = "request" /\ UNCHANGED openBodies
            ELSE pc = "response" /\ openBodies' = DeferredClose(openBodies)
    /\ inFlight' = inFlight - 1
    /\ log' = Append(log, "Could not get current IoTaWatt data")
    /\ pc' = AfterFailure
    /\ UNCHANGED <<config, display, sent, done, tickerC, raw, current, series,
                   evals, panic, closedInFlight>>

\* m.request returns nil: the status is 200 and raw holds the decoded rows.
RequestOk ==
    /\ Alive
    /\ pc = "response"
    /\ \E p \in Payloads(l) : raw' = p
    /\ fetchResult' = "ok"
    /\ inFlight' = inFlight - 1
    /\ openBodies' = DeferredClose(openBodies)
    /\ pc' = "aggregate"
    /\ UNCHANGED <<config, display, sent, done, tickerC, current, series, log,
                   evals, panic, closedInFlight>>

\* The aggregation of the tick's rows.  An index out of range panics, and
\* nothing recovers the panic: the process ends.
Aggregate ==
    /\ Alive
    /\ pc = "aggregate"
    /\ LET r == IF variant = "A" THEN AggregateA(raw, l) ELSE AggregateB(raw, l)
       IN  IF r.panic
           THEN /\ panic' = "index out of range"
                /\ pc' = "panicked"
                /\ UNCHANGED <<current, series>>
           ELSE /\ current' = r.current
                /\ series' = r.series
                /\ pc' = IF variant = "A" THEN "rcInnerHTML" ELSE "marshal"
                /\ UNCHANGED panic
    /\ UNCHANGED <<config, display, http, done, tickerC, inFlight, fetchResult, raw,
                   log, evals, closedInFlight>>

\* One m.ui.Eval call of the step `step` with the arguments `args` of its
\* script template: it succeeds or fails.
Eval(step, name, args, ok) ==
    evals' = Append(evals, [step |-> step, eval |-> name, args |-> args, ok |-> ok])

\* A local of the loop body is reset to its zero value once no later statement
\* of the tick reads it: raw after the aggregation, series after the encoding,
\* current after the current-value update.
Released(v, zero, dead) == IF dead THEN zero ELSE v

\* renderCurrent(watt): above 100 the total is shown in kW, else in W.
\*   w := int(watt); d := int(watt*10) - (w * 10)
Tenths(x, w) == ToInt(x * 10) - (w * 10)
RenderParts(watt) ==
    LET kilo == watt > Float(100)
        x == IF kilo THEN DivKilo(watt) ELSE watt
        w == ToInt(x)
    IN  [unit |-> IF kilo THEN "kW" ELSE "W",
         removeClass |-> IF kilo THEN "W" ELSE "kW",
         w |-> w,
         d |-> Tenths(x, w)]

\* The arguments of the three Evals of renderCurrent.
\*   innerHTML = '<ws><sel>.<ds> <unit></sel>'
\*   classList.remove(removeClass)
\*   classList.add(unit)
Args(name) ==
    LET p == RenderParts(current)
    IN  CASE name = "innerHTML" -> <<p.w, p.d, p.unit>>
          [] name = "classList.remove" -> <<p.removeClass>>
          [] name = "classList.add" -> <<p.unit>>

\* The effect of a renderCurrent Eval on the display element: the unit its
\* text shows and its unit classes.  An Eval that fails leaves the element as
\* it was.
Effect(name, ok) ==
    /\ shown' = IF ok /\ name = "innerHTML" THEN Args(name)[3] ELSE shown
    /\ classes' = IF ok /\ name = "classList.remove" THEN classes \ {Args(name)[1]}
                  ELSE IF ok /\ name = "classList.add" THEN classes \cup {Args(name)[1]}
                  ELSE classes

\* Where renderCurrent goes after one of its first two Evals: it returns the
\* error of a failed Eval at once.
ReturnOnError(ok, next) == IF ok THEN next ELSE "marshal"

\* renderCurrent (variant A): three Evals, returning at the first that fails;
\* run logs the returned error and goes on to the encoding.
RenderCurrentEval(at, name, next) ==
    /\ Alive
    /\ pc = at
    /\ \E ok \in BOOLEAN :
         /\ Eval("current", name, Args(name), ok)
         /\ Effect(name, ok)
         /\ pc' = ReturnOnError(ok, next)
         /\ IF ok
            THEN UNCHANGED <<log, current>>
            ELSE /\ log' = Append(log, "Could not update current")
                 /\ current' = Released(current, 0, TRUE)
    /\ raw' = Released(raw, <<>>, TRUE)
    /\ UNCHANGED <<config, http, done, tickerC, inFlight, fetchResult,
                   series, panic, closedInFlight>>

RcInnerHTML == RenderCurrentEval("rcInnerHTML", "innerHTML", "rcRemove")
RcRemove == RenderCurrentEval("rcRemove", "classList.remove", "rcAdd")
RcAdd ==
    /\ Alive
    /\ pc = "rcAdd"
    /\ \E ok \in BOOLEAN :
         /\ Eval("current", "classList.add", Args("classList.add"), ok)
         /\ Effect("classList.add", ok)
         /\ log' = IF ok THEN log ELSE Append(log, "Could not update current")
    /\ pc' = "marshal"
    /\ current' = Released(current, 0, TRUE)
    /\ UNCHANGED <<config, http, done, tickerC, inFlight, fetchResult, raw,
                   series, panic, closedInFlight>>

\* json.Marshal(series).  Variant B encodes before its first Eval, variant A
\* after renderCurrent.
Marshal ==
    /\ Alive
    /\ pc = "marshal"
    /\ IF MarshalOk(series)
       THEN pc' = (IF variant = "A" THEN "evalSeries" ELSE "evalCurrent")
            /\ UNCHANGED log
       ELSE pc' = AfterFailure /\ log' = Append(log, "could not encode data")
    /\ raw' = Released(raw, <<>>, TRUE)
    /\ series' = Released(series, <<>>, TRUE)
    /\ UNCHANGED <<config, display, http, done, tickerC, inFlight, fetchResult,
                   current, evals, panic, closedInFlight>>

\* Where run goes after an Eval of the render sequence, whatever its outcome.
UntilFailure(ok, next) == IF ok THEN next ELSE AfterFailure
Regardless(ok, next) == next

\* One Eval of the render sequence in run: a failure is logged, and run goes
\* on to the next step either way.
RenderEval(at, step, msg, next) ==
    /\ Alive
    /\ pc = at
    /\ \E ok \in BOOLEAN :
         /\ Eval(step, step, <<>>, ok)
         /\ log' = IF ok THEN log ELSE Append(log, msg)
         /\ pc' = Regardless(ok, next)
    /\ current' = Released(current, 0, TRUE)
    /\ UNCHANGED <<config, display, http, done, tickerC, inFlight, fetchResult, raw,
                   series, panic, closedInFlight>>

\* Variant B: the current total, formatted, is written by one Eval.
EvalCurrent == RenderEval("evalCurrent", "current", "Could not update current", "evalSeries")
\* iotaWattSeries = <encoded series>
EvalSeries == RenderEval("evalSeries", "series", "Could not update series", "evalChart")
\* iotaWattChart.update(...): the tick ends and run is back at the select.
EvalChart == RenderEval("evalChart", "chart", "Could not update chart", "select")

\* A panic in the caller of Close ends the process: the worker goroutine, its
\* ticker, its request and its locals are gone with it.
Crashed ==
    /\ pc' = "panicked"
    /\ tickerC' = 0
    /\ inFlight' = 0
    /\ fetchResult' = "none"
    /\ raw' = <<>>
    /\ current' = 0
    /\ series' = <<>>
    /\ log' = <<>>
    /\ evals' = <<>>
    /\ sent' = <<>>
    /\ openBodies' = 0

\* Module.Close: close(m.done), on the closer a successful New returned.
\* Closing a closed channel panics.
Close ==
    /\ Alive
    /\ newErr = "none"
    /\ IF done
       THEN /\ panic' = "close of closed channel"
            /\ Crashed
            /\ UNCHANGED <<done, closedInFlight>>
       ELSE /\ done' = TRUE
            /\ closedInFlight' = (pc \in {"request", "response"})
            /\ UNCHANGED <<panic, http, pc, tickerC, inFlight, fetchResult, raw,
                           current, series, log, evals>>
    /\ UNCHANGED <<config, display>>

Next ==
    \/ New
    \/ Start
    \/ TimerFire
    \/ SelectDone
    \/ SelectTick
    \/ DoResponse
    \/ RequestFail
    \/ RequestOk
    \/ Aggregate
    \/ RcInnerHTML
    \/ RcRemove
    \/ RcAdd
    \/ Marshal
    \/ EvalCurrent
    \/ EvalSeries
    \/ EvalChart
    \/ Close

Spec == Init /\ [][Next]_vars

\* The steps of the worker goroutine; c.Do and m.ui.Eval return.
WorkerStep ==
    \/ Start
    \/ SelectDone
    \/ SelectTick
    \/ DoResponse
    \/ RequestFail
    \/ RequestOk
    \/ Aggregate
    \/ RcInnerHTML
    \/ RcRemove
    \/ RcAdd
    \/ Marshal
    \/ EvalCurrent
    \/ EvalSeries
    \/ EvalChart

\* The worker goroutine is scheduled whenever it can take a step.
FairSpec == Spec /\ WF_vars(WorkerStep)

----------------------------------------------------------------------------
(* renderCurrent alone, over a range of current totals *)

\* Current totals in tenths of a watt: -RenderNegTenths .. RenderMaxTenths.
RenderNegTenths == 50
RenderMaxTenths == 12000
RenderInputs == {t * (Unit \div 10) : t \in (0 - RenderNegTenths)..RenderMaxTenths}

\* run calls m.renderCurrent(current) in a tick of variant A.
InitRender ==
    /\ variant = "A"
    /\ inputs = <<>>
    /\ pc = "rcInnerHTML"
    /\ done = FALSE
    /\ tickerC = 0
    /\ inFlight = 0
    /\ fetchResult = "ok"
    /\ raw = <<>>
    /\ current \in RenderInputs
    /\ series = <<>>
    /\ log = <<>>
    /\ evals = <<>>
    /\ panic = "none"
    /\ closedInFlight = FALSE
    /\ newErr = "none"
    /\ qryVals = QueryValues
    /\ sent = Encode(QueryValues)
    /\ openBodies = 0
    /\ shown = ""
    /\ classes = {}

NextRender ==
    \/ RcInnerHTML
    \/ RcRemove
    \/ RcAdd

SpecRender == InitRender /\ [][NextRender]_vars

----------------------------------------------------------------------------
(* Properties *)

\* The position right after the aggregation, where raw, current and series of
\* the tick are all live.
AfterAggregate == pc = (IF variant = "A" THEN "rcInnerHTML" ELSE "marshal")

\* Every row of the tick holds 1 + l values, and there is at least one row.
WellFormed == raw # <<>> /\ \A k \in DOMAIN raw : Len(raw[k]) = 1 + l

\* The sum of the channel values (indices 1..l of the source) of a row.
RECURSIVE SumChannels(_, _)
SumChannels(row, n) == IF n = 0 THEN 0 ELSE SumChannels(row, n - 1) + row[n + 1]

\* The Evals of the current tick that belong to a render step, and its
\* failures.
EvalsOf(step) == {i \in DOMAIN evals : evals[i].step = step}
FailedOf(step) == {i \in EvalsOf(step) : ~evals[i].ok}
Logged(msg) == Cardinality({i \in DOMAIN log : log[i] = msg})
RenderComplete ==
    EvalsOf("current") # {} /\ EvalsOf("series") # {} /\ EvalsOf("chart") # {}

\* C1: in both loop variants, when the worker is at its wait point with the
\* cancellation already signalled, it exits and starts no new fetch, even when
\* a timer firing is pending too.
C1_CancelTakesPrecedence == [][(pc = "select" /\ done) => pc' # "request"]_vars

\* C2: when Close is called while a fetch is in flight, then once that fetch
\* and the rest of its tick settle the worker starts no further fetch.
C2_NoTickAfterCloseInFlight ==
    [][(closedInFlight /\ inFlight = 0) => pc' # "request"]_vars

\* C3: after a tick whose fetch returned a non-200 status, and with Close not
\* called, the worker is still running.
C3_Non200KeepsWorker ==
    (fetchResult = "status" /\ ~done) => pc \notin {"returned", "panicked"}

\* C4: a successful fetch of an empty row list aggregates to current total 0
\* and an empty series per configured input, with no out-of-range access.
C4_EmptyRows ==
    (fetchResult = "ok" /\ raw = <<>> /\ (AfterAggregate \/ pc = "panicked"))
        => /\ panic # "index out of range"
           /\ current = 0
           /\ series = [i \in 1..l |-> <<>>]

\* C5: a fetched row with fewer than 1 + len(inputs) values never crashes the
\* worker with an index out of range.
C5_ShortRowIsTickError ==
    (\E k \in DOMAIN raw : Len(raw[k]) < 1 + l) => panic # "index out of range"

\* C6: a second Close never panics.
C6_SecondCloseSafe == panic # "close of closed channel"

\* C7: in every tick that reaches rendering the display mutations come in the
\* order current-value update, series assignment, chart refresh; a tick that
\* began rendering ends with all three attempted whatever failed before; and
\* every failed step has its own log entry.
C7_RenderOrder ==
    /\ \A i \in EvalsOf("current") : \A j \in EvalsOf("series") : i < j
    /\ \A i \in EvalsOf("series") : \A j \in EvalsOf("chart") : i < j
    /\ Cardinality(EvalsOf("series")) <= 1
    /\ Cardinality(EvalsOf("chart")) <= 1
    /\ (pc \in {"select", "returned"} /\ evals # <<>>) => RenderComplete
    /\ Logged("Could not update current") = Cardinality(FailedOf("current"))
    /\ Logged("Could not update series") = Cardinality(FailedOf("series"))
    /\ Logged("Could not update chart") = Cardinality(FailedOf("chart"))

\* A tick whose current-value update failed and whose series assignment and
\* chart refresh were issued nevertheless.
C7_Witness ==
    /\ pc = "select"
    /\ FailedOf("current") # {}
    /\ FailedOf("series") # {}
    /\ EvalsOf("chart") # {}
    /\ Len(log) = 2

\* The tick before the next fetch has run to its end: none yet, an abandoned
\* one (failed fetch), or one whose three render steps were all issued.
TickSettled ==
    \/ fetchResult = "none"
    \/ fetchResult \in {"transport", "status", "decode"}
    \/ fetchResult = "ok" /\ RenderComplete

\* C8: ticks never overlap: at most one fetch is in flight, and a fetch starts
\* only when no fetch is in flight and the previous tick has run to its end.
C8_TicksDoNotOverlap ==
    [][/\ inFlight' <= 1
       /\ (inFlight' > inFlight) => (inFlight = 0 /\ TickSettled)]_vars

\* A tick was fetched, aggregated and rendered to its end while a timer
\* firing came: the worker is back at the select and the firing is pending.
C8_Witness ==
    /\ pc = "select"
    /\ fetchResult = "ok"
    /\ RenderComplete
    /\ tickerC = 1
    /\ inFlight = 0
    /\ ~done

\* C9: variant B, for a non-empty list of rows of 1 + N values: series i holds
\* one pair (row[0], row[i+1]/1000) per row, in row order, and the current
\* total is the sum of the last row's channel values divided by 1000.
C9_FineAggregation ==
    (variant = "B" /\ AfterAggregate /\ WellFormed)
        => /\ DOMAIN series = 1..l
           /\ \A i \in 1..l :
                /\ Len(series[i]) = Len(raw)
                /\ \A k \in 1..Len(raw) :
                     /\ series[i][k][1] = raw[k][1]
                     /\ series[i][k][2] * 1000 = raw[k][i + 1]
           /\ current * 1000 = SumChannels(raw[Len(raw)], l)

\* Rows [[100,500],[120,700]] with one input: series [[100,0.5],[120,0.7]]
\* and current total 0.7.
C9_Witness ==
    /\ variant = "B"
    /\ pc = "marshal"
    /\ raw = << <<Float(100), Float(500)>>, <<Float(120), Float(700)>> >>
    /\ series = << << <<Float(100), 500>>, <<Float(120), 700>> >> >>
    /\ current = 700

\* The rows whose timestamp is divisible by 20.
DivisibleBy20(row) == row[1] % (20 * Unit) = 0
Kept == SelectSeq(raw, DivisibleBy20)

\* C10: variant A, for a non-empty list of rows of 1 + N values: series i
\* holds the pairs (row[0], row[i+1]) of the rows whose timestamp is divisible
\* by 20, in row order and native unit, and the current total is the sum of
\* the channel values of the last raw row, kept by the filter or not.
C10_CoarseAggregation ==
    (variant = "A" /\ AfterAggregate /\ WellFormed)
        => /\ DOMAIN series = 1..l
           /\ \A i \in 1..l :
                series[i] = [k \in 1..Len(Kept) |-> <<Kept[k][1], Kept[k][i + 1]>>]
           /\ current = SumChannels(raw[Len(raw)], l)

\* Rows [[100,500],[110,700]] with one input: the last row is filtered out of
\* the series and still gives the current total.
C10_Witness ==
    /\ variant = "A"
    /\ pc = "rcInnerHTML"
    /\ raw = << <<Float(100), Float(500)>>, <<Float(110), Float(700)>> >>
    /\ series = << << <<Float(100), Float(500)>> >> >>
    /\ current = Float(700)

\* C11: a failed fetch is surfaced once and abandons the tick: exactly one
\* error is logged, the fetch is not retried within the tick and no Eval is
\* issued.
C11_FailedFetchOnce ==
    (fetchResult \in {"transport", "status", "decode"})
        => /\ log = <<"Could not get current IoTaWatt data">>
           /\ evals = <<>>
           /\ inFlight = 0
           /\ pc \in {"select", "returned"}

\* A fetch whose body did not decode was abandoned, and a timer firing is
\* pending for the next tick.
C11_Witness ==
    fetchResult = "decode" /\ pc = "select" /\ tickerC = 1 /\ Len(log) = 1

\* C12: when New returns an error the module never starts: no worker, no
\* closer (so no Close), no fetch.
C12_FailedNewNeverStarts ==
    (newErr \notin {"pending", "none"})
        => /\ pc = "failed"
           /\ inFlight = 0
           /\ fetchResult = "none"
           /\ sent = <<>>
           /\ tickerC = 0
           /\ ~done

\* New failed on the HTML asset.
C12_Witness == newErr = "html" /\ pc = "failed"

\* C13: a tick whose aggregation completes has exactly N series, series i
\* built from channel i of the rows, every entry a (timestamp, value) pair,
\* and all series of the same length.
C13_SeriesShape ==
    AfterAggregate
        => /\ DOMAIN series = 1..l
           /\ \A i \in 1..l : \A j \in 1..l : Len(series[i]) = Len(series[j])
           /\ \A i \in 1..l : \A k \in 1..Len(series[i]) :
                /\ Len(series[i][k]) = 2
                /\ \E r \in DOMAIN raw :
                     /\ Len(raw[r]) >= i + 1
                     /\ series[i][k][1] = raw[r][1]
                     /\ raw[r][i + 1] =
                            series[i][k][2] * (IF variant = "A" THEN 1 ELSE 1000)

\* Two inputs and two rows with different readings per channel, aggregated.
C13_Witness ==
    /\ AfterAggregate
    /\ l = 2
    /\ Len(raw) = 2
    /\ raw[1][2] # raw[1][3]
    /\ Len(series[1]) = 2
    /\ Len(series[2]) = 2

C15_FetchOnlyOnTimer ==
    [][(inFlight' > inFlight) => (pc = "select" /\ tickerC = 1)]_vars

\* C17: variant A, after every current-value update (renderCurrent has
\* returned, with or without a failed Eval) the element carries the class of
\* the unit its text shows and not the class of the other unit.
C17_ClassesMatchUnit ==
    (variant = "A" /\ Alive /\ shown # ""
       /\ pc \notin {"rcInnerHTML", "rcRemove", "rcAdd"})
        => classes = {shown}

\* C18: variant A, for a current total of t tenths of a watt the innerHTML
\* Eval gets a whole part w and a tenths digit d in 0..9 with w.d the shown
\* value truncated to one decimal, in W up to 100 W and in kW (total / 1000)
\* above.
C18_WholeAndTenths ==
    (variant = "A" /\ pc = "rcRemove")
        => LET a == evals[Len(evals)].args
               t == current \div (Unit \div 10)
           IN  /\ a[2] \in 0..9
               /\ a[3] = (IF t > 1000 THEN "kW" ELSE "W")
               /\ (t > 1000) => (a[1] * 10) + a[2] = t \div 1000
               /\ (t >= 0 /\ t <= 1000) => (a[1] * 10) + a[2] = t
               /\ (t < 0) => ((0 - a[1]) * 10) + a[2] = 0 - t

\* C19: no response body stays open after request returns: the number of
\* open bodies is at most 1, and 0 whenever request is not reading a response.
C19_BodiesClosed ==
    /\ openBodies \in {0, 1}
    /\ (pc # "response") => openBodies = 0

\* request returned after a non-200 response, and after a decoded one.
C19_Witness ==
    /\ fetchResult \in {"status", "ok"}
    /\ pc \in {"select", "aggregate"}
    /\ openBodies = 0
    /\ tickerC = 1

\* C20: the query values and the configured inputs never change after New,
\* and every request sends exactly the query values, whose select is
\* time.utc.unix followed by the configured inputs in their order.
C20_QueryUnchanged ==
    /\ []((newErr = "none")
            => /\ qryVals["select"] = <<"time.utc.unix">> \o inputs
               /\ (inFlight > 0) =>
                    {sent[i] : i \in DOMAIN sent}
                        = {<<k, qryVals[k]>> : k \in DOMAIN qryVals})
    /\ [][(newErr = "none") => (qryVals' = qryVals /\ inputs' = inputs)]_vars

\* A request of a later tick (one was rendered before) with two inputs.
C20_Witness ==
    /\ pc = "response"
    /\ inputs = <<"in1", "in2">>
    /\ shown # ""
    /\ \E i \in DOMAIN sent : sent[i] = <<"select", <<"time.utc.unix", "in1", "in2">>>>

====
